---- MODULE Spec2Model ----
(***************************************************************************)
(* The navigation stack of karrotframe's navigator (components/Stack.tsx): *)
(* the list of screen instances, the pointer into it, the close promises   *)
(* and the single-navigator guard, driven by the browser's session         *)
(* history.                                                                *)
(*                                                                         *)
(* Indices are those of the source: screenInstancePtr and findIndex are    *)
(* 0-based, -1 means "none"; the entry of index i is screenInstances[i+1]. *)
(* A URL is reduced to what the handlers read from it: the value of the    *)
(* screen-instance-id parameter (NoId when absent), whether its path       *)
(* matches a registered screen, and the present flag.  The fields screenId *)
(* and as of an instance are copied from the URL and never read by the     *)
(* stack logic, so an instance keeps id, present and nestedRouteCount.     *)
(***************************************************************************)
EXTENDS Integers, Sequences, FiniteSets, TLC

\* Screen-instance ids that URLs may carry and uid() may return.
IDs == {"a", "b", "c"}

\* The value of an absent screen-instance-id parameter (falsy in the source).
NoId == ""

\* Longest stack explored.
MaxLen == 2

\* Largest nestedRouteCount explored.
MaxNested == 1

\* Largest number of resolve calls on one close promise explored.
MaxResolves == 2

\* The Stack components that may be mounted on the page.
Stacks == {1, 2}

\* The ids that URLs carry together with the present flag.
PresentIDs == {"c"}

\* The URLs of the history events.  The present flag is only read from a URL
\* that carries an id and matches a screen, and the id of a URL that matches
\* no screen is only tested for being there, so one such id is enough.
URLs ==
  {u \in [sid : IDs \cup {NoId}, match : BOOLEAN, present : BOOLEAN] :
     /\ u.present => (u.match /\ u.sid \in PresentIDs)
     /\ ~u.match => u.sid \in {NoId, "a"}}

VARIABLES
  screenInstances,         \* store: sequence of [id, present, nestedRouteCount]
  screenInstancePtr,       \* store: index of the active instance, -1 if none
  screenInstancePromises,  \* store: id -> [exists, popped, resolveCalls]
  KARROTFRAME,             \* window.__KARROTFRAME__
  mounted,                 \* Stack component -> "unmounted" | "active"
  location,                \* the current URL (useLocation())
  pendingSearch,           \* locations whose [location.search] effect has not run yet
  lastEvent,               \* history: the last step that was an event or changed the
                           \* store: its kind, its URL and the pointer before it
  depthChanges             \* the arguments of the props.onDepthChange calls of the last step

\* The tab container (Tabs.tsx).
VARIABLES
  props,                   \* Tabs: [activeTabKey, disableSwipe]
  lazyMap,                 \* Tabs state: tab key -> its content is mounted
  isSwipeDisabled,         \* Tabs state, as rendered and as the touch handlers hold it
  updates,                 \* Tabs: the state updates queued for the next render
  gesture,                 \* the state of the gesture state machine (makeState)
  lastTouch,               \* history: the last step of the tab container
  translation,             \* the visual drag offset: "neutral" or "dragged"
  lastDispatch             \* history: the gesture state the last touch event was
                           \* dispatched in and the commands of the subscriber

stackVars ==
  <<screenInstances, screenInstancePtr, screenInstancePromises, KARROTFRAME,
    mounted, location, pendingSearch, lastEvent, depthChanges>>

tabsVars ==
  <<props, lazyMap, isSwipeDisabled, updates, gesture, lastTouch, translation,
    lastDispatch>>

vars ==
  <<screenInstances, screenInstancePtr, screenInstancePromises, KARROTFRAME,
    mounted, location, pendingSearch, lastEvent, depthChanges,
    props, lazyMap, isSwipeDisabled, updates, gesture, lastTouch, translation,
    lastDispatch>>

storeVars == <<screenInstances, screenInstancePtr, screenInstancePromises>>

Min(x, y) == IF x < y THEN x ELSE y

\* store.getState()
getState ==
  [screenInstances |-> screenInstances,
   screenInstancePtr |-> screenInstancePtr,
   screenInstancePromises |-> screenInstancePromises]

\* The entries of the stack.
ScreenInstance == [id : IDs, present : BOOLEAN, nestedRouteCount : Int]

NoPromise == [exists |-> FALSE, popped |-> FALSE, resolveCalls |-> 0]

---------------------------------------------------------------------------
(* The store actions.  The store module is not among the sources; these    *)
(* follow the specification's description of the stack operations.         *)

\* Array.prototype.findIndex on the id: the first index, or -1.
findIndex(instances, id) ==
  IF \E i \in 1..Len(instances) : instances[i].id = id
    THEN (CHOOSE i \in 1..Len(instances) :
            /\ instances[i].id = id
            /\ \A j \in 1..(i - 1) : instances[j].id # id) - 1
    ELSE -1

\* Keeps the entries of index <= ptr and puts the new instance after them,
\* with nestedRouteCount 0.
insertScreenInstance(S, ptr, id, present) ==
  [S EXCEPT !.screenInstances =
     SubSeq(S.screenInstances, 1, Min(Len(S.screenInstances), ptr + 1))
       \o <<[id |-> id, present |-> present, nestedRouteCount |-> 0]>>]

increaseScreenInstancePtr(S) ==
  [S EXCEPT !.screenInstancePtr = @ + 1]

setScreenInstancePtr(S, ptr) ==
  [S EXCEPT !.screenInstancePtr = ptr]

\* Applies mapper to the entry of index ptr, if there is one.
mapScreenInstance(S, ptr, mapper) ==
  IF ptr + 1 \in 1..Len(S.screenInstances)
    THEN [S EXCEPT !.screenInstances[ptr + 1] = mapper[@]]
    ELSE S

---------------------------------------------------------------------------
(* Stack.tsx: the three stack operations.                                  *)

\* Mutant of pushScreen: the pointer is not advanced after the insertion.
pushScreen_NoIncrease(S, screenInstanceId, present) ==
  LET nextPtr == findIndex(S.screenInstances, screenInstanceId)
  IN  IF nextPtr = -1
        THEN insertScreenInstance(S, S.screenInstancePtr, screenInstanceId, present)
        ELSE setScreenInstancePtr(S, nextPtr)

\* Mutant of pushScreen: the lookup of an existing entry is left out.
pushScreen_NoLookup(S, screenInstanceId, present) ==
  increaseScreenInstancePtr(
    insertScreenInstance(S, S.screenInstancePtr, screenInstanceId, present))

pushScreen(S, screenInstanceId, present) ==
  LET nextPtr == findIndex(S.screenInstances, screenInstanceId)
  IN  IF nextPtr = -1
        THEN increaseScreenInstancePtr(
               insertScreenInstance(S, S.screenInstancePtr, screenInstanceId, present))
        ELSE setScreenInstancePtr(S, nextPtr)

replaceScreen(S, screenInstanceId, present) ==
  insertScreenInstance(S, S.screenInstancePtr - 1, screenInstanceId, present)

\* Mutant of popScreen: the pointer goes down one step too far.
popScreen_DepthPlusOne(S, depth, targetScreenInstanceId) ==
  LET promise == S.screenInstancePromises[targetScreenInstanceId]
      resolved ==
        IF targetScreenInstanceId # NoId /\ promise.exists /\ ~promise.popped
          THEN [S EXCEPT !.screenInstancePromises[targetScreenInstanceId].resolveCalls = @ + 1]
          ELSE S
  IN  setScreenInstancePtr(resolved, S.screenInstancePtr - depth - 1)

\* promise.resolve(null) is counted in resolveCalls.
popScreen(S, depth, targetScreenInstanceId) ==
  LET promise == S.screenInstancePromises[targetScreenInstanceId]
      resolved ==
        IF targetScreenInstanceId # NoId /\ promise.exists /\ ~promise.popped
          THEN [S EXCEPT !.screenInstancePromises[targetScreenInstanceId].resolveCalls = @ + 1]
          ELSE S
  IN  setScreenInstancePtr(resolved, S.screenInstancePtr - depth)

---------------------------------------------------------------------------
(* Stack.tsx: the handlers of the history events and the effects.          *)

\* The mappers passed to mapScreenInstance.
nestedRouteCountPlusOne ==
  [screenInstance \in ScreenInstance |->
     [screenInstance EXCEPT !.nestedRouteCount = @ + 1]]

nestedRouteCountZero ==
  [screenInstance \in ScreenInstance |->
     [screenInstance EXCEPT !.nestedRouteCount = 0]]

nestedRouteCountMinusOne ==
  [screenInstance \in ScreenInstance |->
     [screenInstance EXCEPT !.nestedRouteCount = @ - 1]]

\* screenInstanceId && matchScreen
tracked(loc) == loc.sid # NoId /\ loc.match

\* Mutant of useHistoryPushEffect: the nested-route branch maps the entry
\* below the pointer.
useHistoryPushEffect_MapBelow(S, loc) ==
  IF tracked(loc)
    THEN pushScreen(S, loc.sid, loc.present)
    ELSE mapScreenInstance(S, S.screenInstancePtr - 1, nestedRouteCountPlusOne)

useHistoryPushEffect(S, loc) ==
  IF tracked(loc)
    THEN pushScreen(S, loc.sid, loc.present)
    ELSE mapScreenInstance(S, S.screenInstancePtr, nestedRouteCountPlusOne)

useHistoryReplaceEffect(S, loc) ==
  IF tracked(loc)
    THEN replaceScreen(S, loc.sid, loc.present)
    ELSE S

\* nestedRouteCount of the active instance; "undefined" when there is none.
activeNestedRouteCount(S) ==
  IF S.screenInstancePtr + 1 \in 1..Len(S.screenInstances)
    THEN S.screenInstances[S.screenInstancePtr + 1].nestedRouteCount
    ELSE -1

\* Mutant of backward: the targeted branch resets the nestedRouteCount of
\* the target instead of that of the active instance.
backward_ResetTarget(S, loc) ==
  IF tracked(loc)
    THEN LET nextPtr == findIndex(S.screenInstances, loc.sid)
         IN  popScreen(mapScreenInstance(S, nextPtr, nestedRouteCountZero),
                       S.screenInstancePtr - nextPtr, loc.sid)
    ELSE IF activeNestedRouteCount(S) = 0
      THEN popScreen(S, 1, NoId)
      ELSE mapScreenInstance(S, S.screenInstancePtr, nestedRouteCountMinusOne)

\* Mutant of backward: a nested-route back leaves the nestedRouteCount of
\* the active instance as it is.
backward_KeepsCount(S, loc) ==
  IF tracked(loc)
    THEN LET nextPtr == findIndex(S.screenInstances, loc.sid)
         IN  popScreen(mapScreenInstance(S, S.screenInstancePtr, nestedRouteCountZero),
                       S.screenInstancePtr - nextPtr, loc.sid)
    ELSE IF activeNestedRouteCount(S) = 0
      THEN popScreen(S, 1, NoId)
      ELSE S

\* Mutant of backward: a nested-route back takes one off the active
\* instance's nestedRouteCount without looking whether it is 0.
backward_AlwaysDecrement(S, loc) ==
  IF tracked(loc)
    THEN LET nextPtr == findIndex(S.screenInstances, loc.sid)
         IN  popScreen(mapScreenInstance(S, S.screenInstancePtr, nestedRouteCountZero),
                       S.screenInstancePtr - nextPtr, loc.sid)
    ELSE mapScreenInstance(S, S.screenInstancePtr, nestedRouteCountMinusOne)

\* Mutant of backward: a URL that is not tracked always pops one screen,
\* whatever the nestedRouteCount of the active instance.
backward_AlwaysPop(S, loc) ==
  IF tracked(loc)
    THEN LET nextPtr == findIndex(S.screenInstances, loc.sid)
         IN  popScreen(mapScreenInstance(S, S.screenInstancePtr, nestedRouteCountZero),
                       S.screenInstancePtr - nextPtr, loc.sid)
    ELSE popScreen(S, 1, NoId)

backward(S, loc) ==
  IF tracked(loc)
    THEN LET nextPtr == findIndex(S.screenInstances, loc.sid)
         IN  popScreen(mapScreenInstance(S, S.screenInstancePtr, nestedRouteCountZero),
                       S.screenInstancePtr - nextPtr, loc.sid)
    ELSE IF activeNestedRouteCount(S) = 0
      THEN popScreen(S, 1, NoId)
      ELSE mapScreenInstance(S, S.screenInstancePtr, nestedRouteCountMinusOne)

forward(S, loc) ==
  IF tracked(loc)
    THEN pushScreen(S, loc.sid, loc.present)
    ELSE mapScreenInstance(S, S.screenInstancePtr, nestedRouteCountPlusOne)

\* Mutant of reconcile: the test for a stack that is not empty is left out.
reconcile_NoEmptyCheck(S, loc) ==
  IF loc.sid = NoId
    THEN S
    ELSE IF tracked(loc)
      THEN pushScreen(S, loc.sid, FALSE)
      ELSE S

\* The effect on [location.search]: the initial reconciliation.
reconcile(S, loc) ==
  IF loc.sid = NoId
    THEN S
    ELSE IF Len(S.screenInstances) > 0
      THEN S
      ELSE IF tracked(loc)
        THEN pushScreen(S, loc.sid, FALSE)
        ELSE S

---------------------------------------------------------------------------
(* Tabs.tsx: the tab container.  A state update (setLazyMap,               *)
(* setIsSwipeDisabled) is queued by its call and takes effect at the next  *)
(* render; the effect that subscribes the touch handlers runs again when   *)
(* one of its dependencies changed, and then makeState starts a new        *)
(* gesture state machine from idle.  The reducer of makeState is not among *)
(* the sources; it follows the specification of the gesture state machine. *)

\* The keys of props.tabs.
TabKeys == {"t1", "t2", "t3"}

\* Longest queue of state updates explored.
MaxUpdates == 2

\* The props of Tabs that the model follows.
TabsProps == [activeTabKey : TabKeys, disableSwipe : BOOLEAN]

\* The props of the tab container of a page whose navigator is explored.
DefaultProps == [activeTabKey |-> "t1", disableSwipe |-> FALSE]

idle == [_t |-> "idle"]

\* The reducer of the gesture state machine: touch-end gives idle from any
\* state, touch-start leaves idle, and a horizontal move beyond the
\* threshold turns a started touch into a swipe.
dispatch(state, action) ==
  CASE action._t = "TOUCH_END" -> idle
    [] action._t = "TOUCH_START" ->
         IF state._t = "idle" THEN [_t |-> "touch_started"] ELSE state
    [] action._t = "TOUCH_MOVE" ->
         IF state._t = "touch_started" /\ action.horizontal
           THEN [_t |-> "swipe_started"]
           ELSE state

\* Mutant of onTouchStart: the touch is dispatched whether or not swipe is
\* disabled.
onTouchStart_AlwaysStart(state, disabled) ==
  dispatch(state, [_t |-> "TOUCH_START"])

\* The touch handlers; disabled is the isSwipeDisabled they were created with.
onTouchStart(state, disabled) ==
  IF disabled
    THEN dispatch(state, [_t |-> "TOUCH_END"])
    ELSE dispatch(state, [_t |-> "TOUCH_START"])

onTouchMove(state, disabled, horizontal) ==
  IF disabled
    THEN dispatch(state, [_t |-> "TOUCH_END"])
    ELSE dispatch(state, [_t |-> "TOUCH_MOVE", horizontal |-> horizontal])

\* Mutant of onTouchEnd: nothing is dispatched.
onTouchEnd_NoDispatch(state) ==
  state

onTouchEnd(state) ==
  dispatch(state, [_t |-> "TOUCH_END"])

\* Mutant of setLazyMap: the previous entries are not spread into the new map.
setLazyMap_NoSpread(prevState, activeTabKey) ==
  [key \in TabKeys |-> key = activeTabKey]

\* setLazyMap((prevState) => ({ ...prevState, [props.activeTabKey]: true }))
setLazyMap(prevState, activeTabKey) ==
  [prevState EXCEPT ![activeTabKey] = TRUE]

\* The first subscriber given to addEffect: the commands it issues when it
\* is called with the state a dispatch has given.
subscriber(state) ==
  IF state._t = "swipe_started"
    THEN <<"translate", "preventDefault">>
    ELSE <<"resetTranslation">>

\* The visual drag offset after the commands, current being the one before.
translated(commands, current) ==
  IF \E i \in 1..Len(commands) : commands[i] = "translate"
    THEN "dragged"
    ELSE IF \E i \in 1..Len(commands) : commands[i] = "resetTranslation"
      THEN "neutral"
      ELSE current

\* The value of the history variable after a step that dispatches nothing.
NoDispatch == [from |-> "", commands |-> <<>>]

\* A touch handler has dispatched and the state machine has gone to state
\* next: the subscriber is called with it.
Dispatched(next) ==
  /\ gesture' = next
  /\ lastDispatch' = [from |-> gesture._t, commands |-> subscriber(next)]
  /\ translation' = translated(subscriber(next), translation)

\* The effect that subscribes the touch handlers runs again: dispose() and a
\* new makeTranslation, which may or may not leave the offset of a swipe
\* that was under way.
Resubscribed ==
  /\ gesture' = idle
  /\ translation' \in {translation, "neutral"}

\* The queued state updates.
lazyUpdate(key) == [kind |-> "setLazyMap", key |-> key, value |-> TRUE]

swipeUpdate(value) == [kind |-> "setIsSwipeDisabled", key |-> "", value |-> value]

\* The state of Tabs after one queued update.
applyUpdate(state, update) ==
  IF update.kind = "setLazyMap"
    THEN [state EXCEPT !.lazyMap = setLazyMap(@, update.key)]
    ELSE [state EXCEPT !.isSwipeDisabled = update.value]

RECURSIVE flushUpdates(_, _)
\* The state of Tabs after the queued updates, oldest first.
flushUpdates(state, queue) ==
  IF queue = <<>>
    THEN state
    ELSE flushUpdates(applyUpdate(state, Head(queue)), Tail(queue))

\* The state a render gives from the current one and the queue.
rendered ==
  flushUpdates([lazyMap |-> lazyMap, isSwipeDisabled |-> isSwipeDisabled], updates)

\* The first render with props p has happened and its effects have run:
\* nothing is mounted yet, swipe is disabled, and the effects on
\* [props.activeTabKey] and [props.disableSwipe] have queued their updates.
TabsInitWith(p) ==
  /\ props = p
  /\ lazyMap = [key \in TabKeys |-> FALSE]
  /\ isSwipeDisabled = TRUE
  /\ updates = <<lazyUpdate(p.activeTabKey), swipeUpdate(p.disableSwipe)>>
  /\ gesture = idle
  /\ lastTouch = "init"
  /\ translation = "neutral"
  /\ lastDispatch = NoDispatch

\* Tabs renders again because of its queued updates; the touch handlers are
\* subscribed again, on a new state machine, if isSwipeDisabled changed.
TabsRender ==
  /\ updates # <<>>
  /\ lazyMap' = rendered.lazyMap
  /\ isSwipeDisabled' = rendered.isSwipeDisabled
  /\ IF rendered.isSwipeDisabled # isSwipeDisabled
       THEN Resubscribed
       ELSE UNCHANGED <<gesture, translation>>
  /\ updates' = <<>>
  /\ lastTouch' = "render"
  /\ lastDispatch' = NoDispatch
  /\ UNCHANGED props
  /\ UNCHANGED stackVars

\* The parent renders Tabs with other props: the queued updates are part of
\* that render, the effects of the changed props queue theirs, and the touch
\* handlers are subscribed again on a new state machine.
TabsPropsChange(p) ==
  /\ p # props
  /\ props' = p
  /\ lazyMap' = rendered.lazyMap
  /\ isSwipeDisabled' = rendered.isSwipeDisabled
  /\ Resubscribed
  /\ lastDispatch' = NoDispatch
  /\ updates' =
       (IF p.activeTabKey # props.activeTabKey
          THEN <<lazyUpdate(p.activeTabKey)>> ELSE <<>>)
       \o (IF p.disableSwipe # props.disableSwipe
             THEN <<swipeUpdate(p.disableSwipe)>> ELSE <<>>)
  /\ lastTouch' = "props"
  /\ UNCHANGED stackVars

\* enableSwipe() and disableSwipe() of the tabs controller.
enableSwipe ==
  /\ Len(updates) < MaxUpdates
  /\ updates' = Append(updates, swipeUpdate(FALSE))
  /\ lastTouch' = "enableSwipe"
  /\ lastDispatch' = NoDispatch
  /\ UNCHANGED <<props, lazyMap, isSwipeDisabled, gesture, translation>>
  /\ UNCHANGED stackVars

disableSwipe ==
  /\ Len(updates) < MaxUpdates
  /\ updates' = Append(updates, swipeUpdate(TRUE))
  /\ lastTouch' = "disableSwipe"
  /\ lastDispatch' = NoDispatch
  /\ UNCHANGED <<props, lazyMap, isSwipeDisabled, gesture, translation>>
  /\ UNCHANGED stackVars

\* The touch events on the tab contents.
TouchStart ==
  /\ Dispatched(onTouchStart(gesture, isSwipeDisabled))
  /\ lastTouch' = "touchstart"
  /\ UNCHANGED <<props, lazyMap, isSwipeDisabled, updates>>
  /\ UNCHANGED stackVars

TouchMove(horizontal) ==
  /\ Dispatched(onTouchMove(gesture, isSwipeDisabled, horizontal))
  /\ lastTouch' = "touchmove"
  /\ UNCHANGED <<props, lazyMap, isSwipeDisabled, updates>>
  /\ UNCHANGED stackVars

TouchEnd ==
  /\ Dispatched(onTouchEnd(gesture))
  /\ lastTouch' = "touchend"
  /\ UNCHANGED <<props, lazyMap, isSwipeDisabled, updates>>
  /\ UNCHANGED stackVars

---------------------------------------------------------------------------
(* The state machine.  The browser's session history outlives the page     *)
(* (its entries survive a reload and are rewritten by replace), so a       *)
(* history event may carry any URL.                                        *)

\* The store state S stays within the explored bounds.
WithinBounds(S) ==
  /\ Len(S.screenInstances) <= MaxLen
  /\ \A i \in 1..Len(S.screenInstances) :
       S.screenInstances[i].nestedRouteCount <= MaxNested
  /\ \A id \in IDs : S.screenInstancePromises[id].resolveCalls <= MaxResolves

\* Some Stack component is mounted and has subscribed its handlers.
Active == \E i \in Stacks : mounted[i] = "active"

\* The ids uid() may return: those neither the URL nor an instance carries.
FreshIds ==
  IDs \ ({location.sid} \cup {screenInstances[i].id : i \in 1..Len(screenInstances)})

\* The locations the [location.search] effect has to run for after a
\* navigation from location from to location to.
searchChange(from, to) ==
  IF from.sid # to.sid \/ from.present # to.present THEN <<to>> ELSE <<>>

\* The value of the history variable after a step of the given kind with
\* URL url: it also keeps the pointer the step started from.
Event(kind, url) ==
  [kind |-> kind, location |-> url, ptr |-> screenInstancePtr]

\* The listener given to store.listen: the calls of props.onDepthChange it
\* makes for an update of the store from prevState to nextState.
listener(prevState, nextState) ==
  IF /\ nextState.screenInstancePtr > -1
     /\ prevState.screenInstancePtr # nextState.screenInstancePtr
    THEN <<nextState.screenInstancePtr>>
    ELSE <<>>

\* The effect that subscribes the listener has run.  It comes after the
\* effect on [location.search] among the effects of Stack, so it has not
\* during the run of that effect that follows the mount, which is the one
\* run with two locations pending.
listening == Active /\ Len(pendingSearch) < 2

\* The store becomes S; kind and url name the step in the history variable.
\* Each handler updates the pointer at most once, so the listener sees the
\* pointer go from its value before the step to its value in S.
Commit(S, kind, url) ==
  /\ screenInstances' = S.screenInstances
  /\ screenInstancePtr' = S.screenInstancePtr
  /\ screenInstancePromises' = S.screenInstancePromises
  /\ lastEvent' = Event(kind, url)
  /\ depthChanges' = IF listening THEN listener(getState, S) ELSE <<>>

\* The page has loaded at URL url and no Stack has mounted yet.
StackInitAt(url) ==
  /\ screenInstances = <<>>
  /\ screenInstancePtr = -1
  /\ screenInstancePromises = [id \in IDs |-> NoPromise]
  /\ KARROTFRAME = FALSE
  /\ mounted = [i \in Stacks |-> "unmounted"]
  /\ location = url
  /\ pendingSearch = <<>>
  /\ lastEvent = [kind |-> "init", location |-> url, ptr |-> -1]
  /\ depthChanges = <<>>

Init ==
  /\ \E url \in URLs : StackInitAt(url)
  /\ TabsInitWith(DefaultProps)

\* Stack i mounts while another navigator is active: the effect throws and
\* the component does not get mounted.
ActivateError(i) ==
  /\ mounted[i] = "unmounted"
  /\ pendingSearch = <<>>
  /\ KARROTFRAME
  /\ lastEvent' = Event("error", location)
  /\ depthChanges' = <<>>
  /\ UNCHANGED <<storeVars, KARROTFRAME, mounted, location, pendingSearch>>
  /\ UNCHANGED tabsVars

\* Stack i mounts: the guard is set and the URL gets a fresh screen-instance
\* id by history.replace.  The history handlers subscribe after this effect,
\* so the replace is not handled; the [location.search] effect runs for the
\* location of the first render and again for the replaced one.
Activate(i) ==
  /\ mounted[i] = "unmounted"
  /\ pendingSearch = <<>>
  /\ ~KARROTFRAME
  /\ KARROTFRAME' = TRUE
  /\ mounted' = [mounted EXCEPT ![i] = "active"]
  /\ \E uid \in FreshIds :
       LET replaced == [location EXCEPT !.sid = uid]
       IN  /\ location' = replaced
           /\ pendingSearch' = <<location, replaced>>
           /\ lastEvent' = Event("activate", replaced)
  /\ depthChanges' = <<>>
  /\ UNCHANGED storeVars
  /\ UNCHANGED tabsVars

\* Mutant of Teardown: the cleanup leaves the guard set.
Teardown_KeepsGuard(i) ==
  /\ mounted[i] = "active"
  /\ pendingSearch = <<>>
  /\ mounted' = [mounted EXCEPT ![i] = "unmounted"]
  /\ lastEvent' = Event("teardown", location)
  /\ depthChanges' = <<>>
  /\ UNCHANGED <<storeVars, KARROTFRAME, location, pendingSearch>>
  /\ UNCHANGED tabsVars

\* The cleanup of the activation effect.
Teardown(i) ==
  /\ mounted[i] = "active"
  /\ pendingSearch = <<>>
  /\ KARROTFRAME' = FALSE
  /\ mounted' = [mounted EXCEPT ![i] = "unmounted"]
  /\ lastEvent' = Event("teardown", location)
  /\ depthChanges' = <<>>
  /\ UNCHANGED <<storeVars, location, pendingSearch>>
  /\ UNCHANGED tabsVars

\* The [location.search] effect runs for the oldest pending location.
ReconcileEffect ==
  /\ pendingSearch # <<>>
  /\ LET S == reconcile(getState, Head(pendingSearch))
     IN  IF S = getState
           THEN /\ UNCHANGED <<storeVars, lastEvent>>
                /\ depthChanges' = <<>>
           ELSE Commit(S, "reconcile", Head(pendingSearch))
  /\ pendingSearch' = Tail(pendingSearch)
  /\ UNCHANGED <<KARROTFRAME, mounted, location>>
  /\ UNCHANGED tabsVars

\* A history event of the given kind arrives with URL url and the store
\* becomes S.
HistoryEvent(kind, url, S) ==
  /\ Active
  /\ pendingSearch = <<>>
  /\ WithinBounds(S)
  /\ Commit(S, kind, url)
  /\ location' = url
  /\ pendingSearch' = searchChange(location, url)
  /\ UNCHANGED <<KARROTFRAME, mounted>>
  /\ UNCHANGED tabsVars

HistoryPush(url) ==
  HistoryEvent("push", url, useHistoryPushEffect(getState, url))

HistoryReplace(url) ==
  HistoryEvent("replace", url, useHistoryReplaceEffect(getState, url))

HistoryBackward(url) ==
  HistoryEvent("backward", url, backward(getState, url))

HistoryForward(url) ==
  HistoryEvent("forward", url, forward(getState, url))

Next ==
  \/ \E i \in Stacks : ActivateError(i)
  \/ \E i \in Stacks : Activate(i)
  \/ \E i \in Stacks : Teardown(i)
  \/ ReconcileEffect
  \/ \E url \in URLs : HistoryPush(url)
  \/ \E url \in URLs : HistoryReplace(url)
  \/ \E url \in URLs : HistoryBackward(url)
  \/ \E url \in URLs : HistoryForward(url)

Spec == Init /\ [][Next]_vars

---------------------------------------------------------------------------
(* The close promises.  Their registration is not among the sources; it    *)
(* follows the specification: a caller asks to wait until a screen         *)
(* instance closes, which puts a pending promise under the instance's id.  *)

\* closeAndWait(id) for an instance of the stack that has no promise yet.
CloseAndWait(id) ==
  /\ Active
  /\ pendingSearch = <<>>
  /\ \E i \in 1..Len(screenInstances) : screenInstances[i].id = id
  /\ ~screenInstancePromises[id].exists
  /\ screenInstancePromises' =
       [screenInstancePromises EXCEPT ![id] = [NoPromise EXCEPT !.exists = TRUE]]
  /\ lastEvent' = Event("closeAndWait", location)
  /\ depthChanges' = <<>>
  /\ UNCHANGED <<screenInstances, screenInstancePtr, KARROTFRAME, mounted,
                 location, pendingSearch>>
  /\ UNCHANGED tabsVars

\* The URLs of the history events explored together with the promises.
CloseURLs == {u \in URLs : ~u.present /\ (u.match \/ u.sid = NoId)}

\* The navigator with callers waiting for screens to close.
CloseNext ==
  \/ \E i \in Stacks : Activate(i)
  \/ ReconcileEffect
  \/ \E id \in IDs : CloseAndWait(id)
  \/ \E url \in CloseURLs : HistoryPush(url)
  \/ \E url \in CloseURLs : HistoryReplace(url)
  \/ \E url \in CloseURLs : HistoryBackward(url)
  \/ \E url \in CloseURLs : HistoryForward(url)

CloseSpec == Init /\ [][CloseNext]_vars

\* The URL of the page whose tab container is explored.
TabsURL == [sid |-> NoId, match |-> FALSE, present |-> FALSE]

TabsInit ==
  /\ \E p \in TabsProps : TabsInitWith(p)
  /\ StackInitAt(TabsURL)

\* The tab container: renders, changes of props, the controller's calls and
\* the touch events.
TabsNext ==
  \/ TabsRender
  \/ \E p \in TabsProps : TabsPropsChange(p)
  \/ enableSwipe
  \/ disableSwipe
  \/ TouchStart
  \/ \E horizontal \in BOOLEAN : TouchMove(horizontal)
  \/ TouchEnd

TabsSpec == TabsInit /\ [][TabsNext]_vars

TypeOK ==
  /\ screenInstancePtr \in -1..MaxLen
  /\ location \in [sid : IDs \cup {NoId}, match : BOOLEAN, present : BOOLEAN]
  /\ Len(screenInstances) <= MaxLen

---------------------------------------------------------------------------
(* Properties.                                                             *)

\* The ids of the instances of a stack, in order.
idsOf(instances) == [i \in 1..Len(instances) |-> instances[i].id]

\* The step taken is a step of one of the kinds.  (With no effect pending
\* every step sets lastEvent; an effect that changes the store sets it too.)
Handled(kinds) ==
  /\ lastEvent'.kind \in kinds
  /\ pendingSearch = <<>> \/ lastEvent' # lastEvent

\* C1: in every reachable state the pointer is at least -1 and at most
\* length(stack) - 1.
C1_PointerBounds ==
  /\ -1 <= screenInstancePtr
  /\ screenInstancePtr <= Len(screenInstances) - 1

\* C1 witness: a backward event has moved the pointer of a non-empty stack
\* from an instance down to -1.
C1_Witness ==
  /\ lastEvent.kind = "backward"
  /\ lastEvent.ptr >= 0
  /\ screenInstancePtr = -1
  /\ Len(screenInstances) > 0

\* C2: a push or forward event that calls pushScreen with an id some entry
\* already has leaves the stack as it was and puts the pointer on the
\* (first) entry with that id.
C2_IdempotentPush ==
  [][(/\ Handled({"push", "forward"})
      /\ tracked(lastEvent'.location)
      /\ findIndex(screenInstances, lastEvent'.location.sid) # -1)
     => (/\ screenInstances' = screenInstances
         /\ screenInstancePtr' = findIndex(screenInstances, lastEvent'.location.sid)
         /\ screenInstances'[screenInstancePtr' + 1].id = lastEvent'.location.sid)]_vars

\* C2 witness: a tracked push has moved the pointer to a lower index, which
\* only a push of an id already in the stack does.
C2_Witness ==
  /\ lastEvent.kind = "push"
  /\ tracked(lastEvent.location)
  /\ screenInstancePtr < lastEvent.ptr
  /\ screenInstances[screenInstancePtr + 1].id = lastEvent.location.sid

\* C3: a push event with a URL that matches no screen or carries no id
\* leaves the stack length, the pointer and the promises as they were, adds
\* exactly 1 to the nestedRouteCount of the instance at the pointer (if
\* there is one) and changes no other instance.
C3_NestedPush ==
  [][(Handled({"push"}) /\ ~tracked(lastEvent'.location))
     => (/\ Len(screenInstances') = Len(screenInstances)
         /\ screenInstancePtr' = screenInstancePtr
         /\ screenInstancePromises' = screenInstancePromises
         /\ \A i \in 1..Len(screenInstances) :
              screenInstances'[i] =
                IF i = screenInstancePtr + 1
                  THEN [screenInstances[i] EXCEPT !.nestedRouteCount = @ + 1]
                  ELSE screenInstances[i])]_vars

\* C3 witness: a push that matched no screen has raised the active
\* instance's nestedRouteCount while another instance lies above it.
C3_Witness ==
  /\ lastEvent.kind = "push"
  /\ ~tracked(lastEvent.location)
  /\ screenInstancePtr = 0
  /\ Len(screenInstances) = 2
  /\ screenInstances[1].nestedRouteCount = lastEvent.ptr + 1
  /\ screenInstances[2].nestedRouteCount = 0

\* The store state S has the pointer and the nestedRouteCount of the
\* instance at the current pointer that the current state has.
RestoredBy(S) ==
  /\ S.screenInstancePtr = screenInstancePtr
  /\ screenInstancePtr + 1 \in 1..Len(screenInstances)
       => /\ screenInstancePtr + 1 \in 1..Len(S.screenInstances)
          /\ S.screenInstances[screenInstancePtr + 1].nestedRouteCount
               = screenInstances[screenInstancePtr + 1].nestedRouteCount

C5_ResolvedAtMostOnce ==
  \A id \in IDs : screenInstancePromises[id].resolveCalls <= 1

\* C5 as stated, second half: a pop that invokes a promise's resolve marks
\* the promise as popped.
C5_PopMarksPopped ==
  [][\A id \in IDs :
       screenInstancePromises'[id].resolveCalls > screenInstancePromises[id].resolveCalls
         => screenInstancePromises'[id].popped]_vars

\* C6 as stated: a backward event that moves the pointer below an instance
\* whose close promise is pending and unresolved resolves that promise in
\* the same step.
C6_PoppedPromiseResolved ==
  [][Handled({"backward"})
     => \A i \in 1..Len(screenInstances) :
          LET promise == screenInstancePromises[screenInstances[i].id]
          IN  (/\ i - 1 <= screenInstancePtr
               /\ i - 1 > screenInstancePtr'
               /\ promise.exists
               /\ promise.resolveCalls = 0)
              => screenInstancePromises'[screenInstances[i].id].resolveCalls > 0]_vars

\* C7: at most one Stack is active and the guard is set exactly while one
\* is; an activation while the guard is set fails and changes neither the
\* guard nor the store nor which Stack is active; an activation that
\* succeeds starts from a cleared guard and sets it; teardown clears it,
\* so that an activation can succeed again.
C7_SingleNavigator ==
  [][/\ Cardinality({i \in Stacks : mounted'[i] = "active"}) <= 1
     /\ KARROTFRAME' <=> \E i \in Stacks : mounted'[i] = "active"
     /\ Handled({"error"})
          => /\ KARROTFRAME /\ KARROTFRAME'
             /\ UNCHANGED <<storeVars, mounted, location>>
     /\ Handled({"activate"})
          => /\ ~KARROTFRAME /\ KARROTFRAME'
             /\ \E i \in Stacks : mounted[i] = "unmounted" /\ mounted'[i] = "active"
     /\ Handled({"teardown"}) => (KARROTFRAME /\ ~KARROTFRAME')
     /\ (lastEvent.kind = "teardown" /\ FreshIds # {})
          => \A i \in Stacks : ENABLED Activate(i)]_vars

\* C7 witness: Stack 1 has just failed to activate while Stack 2 is active
\* on a non-empty stack.
C7_Witness ==
  /\ lastEvent.kind = "error"
  /\ KARROTFRAME
  /\ mounted[2] = "active"
  /\ Len(screenInstances) > 0

\* C8: a push, forward or reconciliation step that calls pushScreen with an
\* id no entry has puts the new instance at index (old pointer + 1) as the
\* last entry, advances the pointer by exactly one onto it and leaves the
\* entries of index <= old pointer as they were.
C8_PushNew ==
  [][(/\ Handled({"push", "forward", "reconcile"})
      /\ tracked(lastEvent'.location)
      /\ findIndex(screenInstances, lastEvent'.location.sid) = -1)
     => (/\ screenInstancePtr' = screenInstancePtr + 1
         /\ Len(screenInstances') = screenInstancePtr + 2
         /\ screenInstances'[screenInstancePtr' + 1].id = lastEvent'.location.sid
         /\ screenInstances'[screenInstancePtr' + 1].nestedRouteCount = 0
         /\ \A i \in 1..(screenInstancePtr + 1) :
              screenInstances'[i] = screenInstances[i])]_vars

\* C8 witness: stack=[A], pointer=0, push B has given stack=[A,B], pointer=1.
C8_Witness ==
  /\ lastEvent.kind = "push"
  /\ tracked(lastEvent.location)
  /\ lastEvent.ptr = 0
  /\ screenInstancePtr = 1
  /\ Len(screenInstances) = 2
  /\ screenInstances[2].id = lastEvent.location.sid
  /\ screenInstances[1].id # screenInstances[2].id

\* C9: a backward event whose URL names the id of the entry of index t
\* leaves the length of the stack and the order of the ids as they were,
\* sets the pointer to t and leaves the instance that was active before
\* with nestedRouteCount 0.
C9_BackwardToTarget ==
  [][(/\ Handled({"backward"})
      /\ tracked(lastEvent'.location)
      /\ findIndex(screenInstances, lastEvent'.location.sid) # -1)
     => (/\ Len(screenInstances') = Len(screenInstances)
         /\ idsOf(screenInstances') = idsOf(screenInstances)
         /\ screenInstancePtr' = findIndex(screenInstances, lastEvent'.location.sid)
         /\ screenInstancePtr >= 0
              => screenInstances'[screenInstancePtr + 1].nestedRouteCount = 0)]_vars

\* C9 witness: stack=[A,B], pointer=1, backward to A has given pointer=0
\* and B.nestedRouteCount=0, A keeping its nested route.
C9_Witness ==
  /\ lastEvent.kind = "backward"
  /\ tracked(lastEvent.location)
  /\ lastEvent.ptr = 1
  /\ screenInstancePtr = 0
  /\ Len(screenInstances) = 2
  /\ screenInstances[1].id = lastEvent.location.sid
  /\ screenInstances[1].nestedRouteCount = 1
  /\ screenInstances[2].nestedRouteCount = 0

\* C10 as stated: after a backward event to an existing instance, a forward
\* event naming the instance that was active before gives back the earlier
\* pointer and the earlier sequence of ids.
C10_BackwardThenForward ==
  [][(/\ Handled({"backward"})
      /\ tracked(lastEvent'.location)
      /\ findIndex(screenInstances, lastEvent'.location.sid) # -1
      /\ screenInstancePtr >= 0)
     => LET before == screenInstances[screenInstancePtr + 1]
            S == forward(getState',
                         [sid |-> before.id, match |-> TRUE, present |-> before.present])
        IN  /\ S.screenInstancePtr = screenInstancePtr
            /\ idsOf(S.screenInstances) = idsOf(screenInstances)]_vars

\* C11: while isSwipeDisabled holds, the state of the gesture state machine
\* is never swipe_started, and every touch-start and touch-move event
\* handled while it holds is dispatched as a touch-end and leaves the state
\* idle, whatever enableSwipe and disableSwipe calls are queued in between.
C11_DisabledSwipeIdle ==
  /\ [](isSwipeDisabled => gesture._t # "swipe_started")
  /\ [][(/\ isSwipeDisabled
         /\ TouchStart \/ \E horizontal \in BOOLEAN : TouchMove(horizontal))
        => (/\ gesture' = dispatch(gesture, [_t |-> "TOUCH_END"])
            /\ gesture'._t = "idle")]_vars

\* C11 witness: a touch-start has been handled as a touch-end while swipe
\* is disabled, a request to enable it being queued and not yet rendered.
C11_Witness ==
  /\ lastTouch = "touchstart"
  /\ isSwipeDisabled
  /\ ~props.disableSwipe
  /\ updates = <<swipeUpdate(FALSE)>>
  /\ gesture._t = "idle"

\* C12: no step takes a key out of the mounted set (a lazyMap entry that is
\* true stays true); the active tab key is mounted or its setLazyMap update
\* is queued, and it is mounted whenever no setLazyMap update is queued.
C12_LazyMountMonotonic ==
  /\ [](\/ lazyMap[props.activeTabKey]
        \/ \E i \in 1..Len(updates) : updates[i] = lazyUpdate(props.activeTabKey))
  /\ []((\A i \in 1..Len(updates) : updates[i].kind # "setLazyMap")
          => lazyMap[props.activeTabKey])
  /\ [][\A key \in TabKeys : lazyMap[key] => lazyMap'[key]]_vars

\* C12 witness: after the active tab key has gone through all the tabs and
\* the last change has been rendered, every tab is mounted.
C12_Witness ==
  /\ lastTouch = "render"
  /\ updates = <<>>
  /\ \A key \in TabKeys : lazyMap[key]

\* C13 as stated: a replace event whose URL matches a screen and carries an
\* id, handled while an instance is active, puts the new instance at the
\* pointer and leaves the length of the stack, the pointer and every other
\* entry as they were.
C13_ReplaceInPlace ==
  [][(/\ Handled({"replace"})
      /\ tracked(lastEvent'.location)
      /\ screenInstancePtr >= 0)
     => (/\ Len(screenInstances') = Len(screenInstances)
         /\ screenInstancePtr' = screenInstancePtr
         /\ screenInstances'[screenInstancePtr + 1].id = lastEvent'.location.sid
         /\ \A i \in 1..Len(screenInstances) :
              i # screenInstancePtr + 1 => screenInstances'[i] = screenInstances[i])]_vars

\* C14 as stated: a backward event, handled while an instance is active,
\* whose URL is a nested-route URL or carries an id that no entry has moves
\* the pointer down by exactly one and changes no nestedRouteCount if the
\* active instance's nestedRouteCount is 0, and otherwise leaves the pointer
\* and takes exactly one off the active instance's nestedRouteCount.
C14_BackwardBranches ==
  [][(/\ Handled({"backward"})
      /\ \/ ~tracked(lastEvent'.location)
         \/ findIndex(screenInstances, lastEvent'.location.sid) = -1
      /\ screenInstancePtr >= 0)
     => IF activeNestedRouteCount(getState) = 0
          THEN /\ screenInstancePtr' = screenInstancePtr - 1
               /\ screenInstances' = screenInstances
          ELSE /\ screenInstancePtr' = screenInstancePtr
               /\ screenInstances'[screenInstancePtr + 1].nestedRouteCount
                    = screenInstances[screenInstancePtr + 1].nestedRouteCount - 1]_vars

\* A nested-route push is handled while the active instance has
\* nestedRouteCount 0.
FirstNestedPush ==
  /\ Handled({"push"})
  /\ ~tracked(lastEvent'.location)
  /\ screenInstancePtr >= 0
  /\ activeNestedRouteCount(getState) = 0

\* The backward event to URL url that undoes the nested-route push just
\* handled leaves the pointer and takes the nestedRouteCount from 1 to 0.
UndoneBy(url) ==
  LET S == backward(getState', url)
  IN  /\ activeNestedRouteCount(getState') = 1
      /\ S.screenInstancePtr = screenInstancePtr
      /\ activeNestedRouteCount(S) = 0

\* A backward event to a nested-route URL, handled while the active
\* instance's nestedRouteCount is at least 1, leaves the pointer and takes
\* exactly one off that count.
NestedBackStep ==
  (/\ Handled({"backward"})
   /\ ~tracked(lastEvent'.location)
   /\ screenInstancePtr >= 0
   /\ activeNestedRouteCount(getState) >= 1)
  => (/\ screenInstancePtr' = screenInstancePtr
      /\ screenInstances' =
           [screenInstances EXCEPT ![screenInstancePtr + 1].nestedRouteCount = @ - 1])

C16_NestedRouteCountNonNegative ==
  \A i \in 1..Len(screenInstances) :
    /\ screenInstances[i].nestedRouteCount \in Int
    /\ screenInstances[i].nestedRouteCount >= 0

\* C16 witness: a backward event to a nested-route URL has taken the
\* nestedRouteCount of the only instance down to 0, and the stack has an
\* entry above the pointer that kept its own count.
C16_Witness ==
  /\ lastEvent.kind = "backward"
  /\ ~tracked(lastEvent.location)
  /\ lastEvent.ptr = 0
  /\ screenInstancePtr = 0
  /\ Len(screenInstances) = 2
  /\ screenInstances[1].nestedRouteCount = 0
  /\ screenInstances[2].nestedRouteCount = 1

\* C17 as stated: the activation of a Stack changes the URL by a replace
\* that handles no event and leaves the store alone, gives a URL without
\* screen-instance id a fresh one, and leaves a URL that carries a
\* screen-instance id with that id.
C17_ActivationKeepsId ==
  [][Handled({"activate"})
     => (/\ UNCHANGED storeVars
         /\ location' = [location EXCEPT !.sid = location'.sid]
         /\ location'.sid # NoId
         /\ location.sid # NoId => location'.sid = location.sid)]_vars

\* C18: the effect on [location.search], run for a URL that matches a
\* screen and carries an id while the stack is empty, gives a stack of
\* exactly one instance with that id, present = FALSE and nestedRouteCount
\* 0, and pointer 0; run while the stack is not empty, or for a URL without
\* id or that matches no screen, it leaves the stack and the pointer alone.
C18_InitialReconcile ==
  [][ReconcileEffect
     => LET loc == Head(pendingSearch)
        IN  IF Len(screenInstances) = 0 /\ tracked(loc)
              THEN /\ screenInstances' =
                        <<[id |-> loc.sid, present |-> FALSE, nestedRouteCount |-> 0]>>
                   /\ screenInstancePtr' = 0
              ELSE UNCHANGED <<screenInstances, screenInstancePtr>>]_vars

\* C18 witness: the reconciliation has pushed the instance named by a URL
\* that carries the present flag, as the only entry and with present = FALSE.
C18_Witness ==
  /\ lastEvent.kind = "reconcile"
  /\ lastEvent.location.present
  /\ Len(screenInstances) = 1
  /\ screenInstancePtr = 0
  /\ screenInstances[1].id = lastEvent.location.sid
  /\ ~screenInstances[1].present

\* C19 as stated: a replace that arrives while the stack is empty and the
\* pointer is -1, the one an activation issues included, leaves the stack
\* empty and the pointer at -1.
C19_ReplaceOnEmptyNoOp ==
  [][(/\ Handled({"replace", "activate"})
      /\ screenInstances = <<>>
      /\ screenInstancePtr = -1)
     => (/\ screenInstances' = <<>>
         /\ screenInstancePtr' = -1)]_vars

\* C20 as stated: a step calls props.onDepthChange exactly once, with the
\* new pointer, if it changes the pointer to a value that is at least 0,
\* and does not call it otherwise.
C20_DepthChangeNotified ==
  [][depthChanges' =
       IF screenInstancePtr' # screenInstancePtr /\ screenInstancePtr' >= 0
         THEN <<screenInstancePtr'>>
         ELSE <<>>]_vars

\* C21: a touch-end event leaves the gesture state idle whatever state it
\* was dispatched in, and the subscriber then resets the drag offset to
\* neutral; the subscriber applies the drag offset and suppresses default
\* scrolling only when the state it is called with is swipe_started.
C21_TouchEndResets ==
  [][/\ TouchEnd
          => /\ gesture'._t = "idle"
             /\ lastDispatch'.commands = <<"resetTranslation">>
             /\ translation' = "neutral"
     /\ \A i \in 1..Len(lastDispatch'.commands) :
          lastDispatch'.commands[i] \in {"translate", "preventDefault"}
            => gesture'._t = "swipe_started"
     /\ (translation' = "dragged" /\ translation = "neutral")
          => gesture'._t = "swipe_started"]_vars

\* C21 witness: a touch-end dispatched in state swipe_started, with the drag
\* offset applied, has given idle and a neutral offset.
C21_Witness ==
  /\ lastTouch = "touchend"
  /\ lastDispatch.from = "swipe_started"
  /\ gesture._t = "idle"
  /\ translation = "neutral"

\* C22 as stated: in every reachable state no two entries of the stack have
\* the same screen-instance id.
C22_UniqueIds ==
  \A i, j \in 1..Len(screenInstances) :
    screenInstances[i].id = screenInstances[j].id => i = j

\* C23 as stated: a step calls the resolve of the close promise of an
\* instance only if it takes that instance out of the active part of the
\* stack (its index is at most the pointer before the step and above the
\* pointer after it); in particular a backward event that does not lower
\* the pointer resolves no close promise.
C23_ResolvedOnlyWhenRemoved ==
  [][\A id \in IDs :
       screenInstancePromises'[id].resolveCalls > screenInstancePromises[id].resolveCalls
         => \E i \in 1..Len(screenInstances) :
              /\ screenInstances[i].id = id
              /\ i - 1 <= screenInstancePtr
              /\ i - 1 > screenInstancePtr']_vars

====
